---- MODULE Spec2Model ----
(***************************************************************************)
(* Staffing optimisation: optimize_staffing (src/optimizer_scipy.py) and   *)
(* its caller, the "Run Staffing Optimization" branch of src/app.py.       *)
(*                                                                         *)
(* Staff counts, wages, the penalty and the cap are integers.  The LP      *)
(* solution result.x is a vector of reals; it is held in HALF units (the   *)
(* value 5 stands for 2.5 staff), so a solution may be fractional and      *)
(* np.ceil is a real conversion, not the identity.                         *)
(*                                                                         *)
(* An optional value (None or a value) is a sequence of length 0 or 1.     *)
(***************************************************************************)
EXTENDS Integers, Sequences, FiniteSets, TLC

VARIABLES
    required_staff,     \* argument: sequence of required staff per hour
    hourly_wage,        \* argument: sequence of wages per hour
    overstaff_penalty,  \* argument
    max_staff,          \* argument: None (<<>>) or <<k>>
    ui_max_staff,       \* app.py: the "Max staff per hour" widget value
    caller,             \* "none", "direct" or "app"
    pc,                 \* "idle", "called", "done"
    c,                  \* cost coefficients (line 37)
    b_ub,               \* right-hand side of A_ub x <= b_ub (line 41)
    bounds,             \* variable bounds (lines 44-49)
    result,             \* linprog's result: success, status, x (half units)
    staff_plan,         \* returned plan, <<>> until returned
    total_cost,         \* returned cost: None (<<>>) or <<cost>>
    outcome             \* "none", "ok", "RuntimeError", "ValueError"

vars == <<required_staff, hourly_wage, overstaff_penalty, max_staff,
          ui_max_staff, caller, pc, c, b_ub, bounds, result, staff_plan,
          total_cost, outcome>>

\* ---------------------------------------------------------------- bounds
MaxLen == 2
MaxReq == 2
MaxWage == 1
MaxPenalty == 1
Headroom == 1

\* Largest staff level the model lets the solver return on an hour that has
\* no upper bound, and the largest cap a caller passes.
XMax == MaxReq + Headroom

None == <<>>

SeqsUpTo(S, n) == UNION {[1..k -> S] : k \in 1..n}

Max2(a, b) == IF a >= b THEN a ELSE b

RECURSIVE MaxOf(_)
MaxOf(s) == IF Len(s) = 1 THEN s[1] ELSE Max2(s[1], MaxOf(Tail(s)))

RECURSIVE Dot(_, _)
\* sum over t of a[t] * b[t]   (np.sum(a * b), equal lengths)
Dot(a, b) == IF Len(a) = 0 THEN 0 ELSE a[1] * b[1] + Dot(Tail(a), Tail(b))

\* ------------------------------------------------------- optimize_staffing

\* line 37: c = hourly_wage + overstaff_penalty
CostCoefficientsPenaltyOnly(wage, penalty) == [t \in 1..Len(wage) |-> penalty]

CostCoefficientsMinus(wage, penalty) == [t \in 1..Len(wage) |-> wage[t] - penalty]

CostCoefficients(wage, penalty) == [t \in 1..Len(wage) |-> wage[t] + penalty]

\* line 41: b_ub = -required_staff   (with A_ub = -I, line 40)
B_ubZero(req) == [t \in 1..Len(req) |-> 0]

B_ub(req) == [t \in 1..Len(req) |-> -req[t]]

\* lines 44-49: one (0, max_staff) or (0, None) pair per hour
BoundsNoCap(n, ms) == [t \in 1..n |-> [lo |-> 0, hi |-> None]]

BoundsExclusive(n, ms) ==
    [t \in 1..n |-> [lo |-> 0, hi |-> IF ms # None THEN <<ms[1] - 1>> ELSE None]]

Bounds(n, ms) ==
    [t \in 1..n |-> [lo |-> 0, hi |-> IF ms # None THEN <<ms[1]>> ELSE None]]

\* The half-unit values of one LP variable inside the modelled box.
XValues == 0..(2 * XMax)

\* linprog's problem is separable: A_ub = -I, so row t is -x[t] <= b_ub[t],
\* and the bounds are per variable.  The feasible values of x[t]:
HourFeasible(t) ==
    {v \in XValues :
        /\ -v <= 2 * b_ub[t]
        /\ 2 * bounds[t].lo <= v
        /\ bounds[t].hi # None => v <= 2 * bounds[t].hi[1]}

\* The problem is unbounded below on hour t: negative cost, no upper bound.
HourUnbounded(t) == c[t] < 0 /\ bounds[t].hi = None

\* The minimisers of c[t] * x[t] over the feasible values.
HourOptimal(t) ==
    LET F == HourFeasible(t)
    IN  {v \in F : \A u \in F : c[t] * v <= c[t] * u}

\* linprog's status for the problem (lines 52-58)
LpStatus ==
    IF \E t \in 1..Len(c) : HourFeasible(t) = {} THEN "infeasible"
    ELSE IF \E t \in 1..Len(c) : HourUnbounded(t) THEN "unbounded"
    ELSE "optimal"

RECURSIVE LpSolutionsUpTo(_)
\* The optimal solutions restricted to hours 1..k (the product of the hours'
\* minimisers, the objective being a sum of per-hour terms).
LpSolutionsUpTo(k) ==
    IF k = 0 THEN {<<>>}
    ELSE {Append(x, v) : x \in LpSolutionsUpTo(k - 1), v \in HourOptimal(k)}

\* Every optimal solution of the LP: the solver may return any of them.
LpSolutions == LpSolutionsUpTo(Len(c))

\* np.ceil on a value in half units, as an integer (line 64)
CeilPlusOne(v) == v \div 2 + 1

Ceil(v) == (v + 1) \div 2

\* line 64: staff_plan = np.ceil(result.x).astype(int)
StaffPlanReversed(x) == [t \in 1..Len(x) |-> Ceil(x[Len(x) + 1 - t])]

StaffPlan(x) == [t \in 1..Len(x) |-> Ceil(x[t])]

\* line 67: total_cost = np.sum(staff_plan * hourly_wage)
TotalCostWithPenalty(plan, wage) == Dot(plan, CostCoefficients(wage, overstaff_penalty))

TotalCost(plan, wage) == Dot(plan, wage)

\* ---------------------------------------------------------------- app.py

\* line 139: max_staff=None if max_staff == 0 else int(max_staff)
MaxStaffArgIdentity(ui) == <<ui>>

MaxStaffArg(ui) == IF ui = 0 THEN None ELSE <<ui>>

\* ------------------------------------------------------------------ state

NoResult == [success |-> FALSE, status |-> "none", x |-> <<>>]

Init ==
    /\ required_staff \in SeqsUpTo(-1..MaxReq, MaxLen)
    /\ hourly_wage \in SeqsUpTo(-1..MaxWage, MaxLen)
    /\ overstaff_penalty \in 0..MaxPenalty
    /\ max_staff = None
    /\ ui_max_staff = 0
    /\ caller = "none"
    /\ pc = "idle"
    /\ c = <<>>
    /\ b_ub = <<>>
    /\ bounds = <<>>
    /\ result = NoResult
    /\ staff_plan = <<>>
    /\ total_cost = None
    /\ outcome = "none"

\* lines 32-49: the arguments are bound and the LP is built
Enter(ms) ==
    /\ max_staff' = ms
    /\ c' = CostCoefficients(hourly_wage, overstaff_penalty)
    /\ b_ub' = B_ub(required_staff)
    /\ bounds' = Bounds(Len(required_staff), ms)
    /\ pc' = "called"
    /\ UNCHANGED <<required_staff, hourly_wage, overstaff_penalty, result,
                   staff_plan, total_cost, outcome>>

\* A direct call of optimize_staffing, max_staff None or a cap >= 0.
DirectCall ==
    /\ pc = "idle"
    /\ \E ms \in {None} \cup {<<k>> : k \in 0..XMax} : Enter(ms)
    /\ caller' = "direct"
    /\ UNCHANGED ui_max_staff

\* app.py lines 88-94 and 130-141: the widget value (min_value=0) is mapped
\* and the two columns of one dataframe are passed.
AppRun ==
    /\ pc = "idle"
    /\ Len(required_staff) = Len(hourly_wage)
    /\ \E ui \in 0..XMax :
        /\ ui_max_staff' = ui
        /\ Enter(MaxStaffArg(ui))
    /\ caller' = "app"

\* lines 52-58, linprog rejects c and A_ub of different sizes (ValueError
\* propagates out of optimize_staffing; the LP is not solved).
LinprogShapeError ==
    /\ pc = "called"
    /\ Len(c) # Len(b_ub)
    /\ outcome' = "ValueError"
    /\ pc' = "done"
    /\ UNCHANGED <<required_staff, hourly_wage, overstaff_penalty, max_staff,
                   ui_max_staff, caller, c, b_ub, bounds, result, staff_plan,
                   total_cost>>

\* lines 52-61: the LP has no optimal solution, result.success is false and
\* RuntimeError("Optimization failed: ...") is raised
SolveAndRaise ==
    /\ pc = "called"
    /\ Len(c) = Len(b_ub)
    /\ LpStatus # "optimal"
    /\ result' = [success |-> FALSE, status |-> LpStatus, x |-> <<>>]
    /\ outcome' = "RuntimeError"
    /\ pc' = "done"
    /\ UNCHANGED <<required_staff, hourly_wage, overstaff_penalty, max_staff,
                   ui_max_staff, caller, c, b_ub, bounds, staff_plan,
                   total_cost>>

\* lines 52-69: the LP is solved, linprog returns one of its optimal
\* solutions, which is rounded up and priced
SolveAndReturn ==
    /\ pc = "called"
    /\ Len(c) = Len(b_ub)
    /\ LpStatus = "optimal"
    /\ \E x \in LpSolutions :
        /\ result' = [success |-> TRUE, status |-> "optimal", x |-> x]
        /\ staff_plan' = StaffPlan(x)
        /\ total_cost' = <<TotalCost(StaffPlan(x), hourly_wage)>>
    /\ outcome' = "ok"
    /\ pc' = "done"
    /\ UNCHANGED <<required_staff, hourly_wage, overstaff_penalty, max_staff,
                   ui_max_staff, caller, c, b_ub, bounds>>

Next ==
    \/ DirectCall
    \/ AppRun
    \/ LinprogShapeError
    \/ SolveAndRaise
    \/ SolveAndReturn

Spec == Init /\ [][Next]_vars

\* ----------------------------------------------------------------- claims

Done == pc = "done"

Succeeded == pc = "done" /\ outcome = "ok"

Hours == 1..Len(required_staff)

\* The contract's preconditions on the two sequences (the penalty and a
\* provided cap are >= 0 in every call the model makes).
ValidInput ==
    /\ Len(required_staff) = Len(hourly_wage)
    /\ \A t \in 1..Len(required_staff) : required_staff[t] >= 0
    /\ \A t \in 1..Len(hourly_wage) : hourly_wage[t] >= 0

\* C1 (coverage): every successful solve on valid inputs returns a plan with
\* plan[t] >= required_staff[t] for every hour t.
C1_Coverage ==
    (Succeeded /\ ValidInput) =>
        \A t \in Hours : staff_plan[t] >= required_staff[t]

\* Two hours with different positive requirements were planned.
C1_Witness ==
    /\ Succeeded /\ ValidInput
    /\ Len(required_staff) = 2
    /\ required_staff[1] > required_staff[2]
    /\ required_staff[2] > 0

\* C2 (infeasibility detection): on valid inputs, a provided max_staff
\* strictly below max(required_staff) makes the call fail with the solver
\* failure error (RuntimeError "Optimization failed"), and neither a plan nor
\* a cost is returned.
C2_InfeasibilityDetected ==
    (Done /\ ValidInput /\ max_staff # None /\ max_staff[1] < MaxOf(required_staff)) =>
        /\ outcome = "RuntimeError"
        /\ staff_plan = <<>>
        /\ total_cost = None

\* A call with max_staff = 0 and a positive requirement has failed.
C2_Witness ==
    /\ Done /\ ValidInput
    /\ max_staff = <<0>>
    /\ MaxOf(required_staff) > 0
    /\ result.status = "infeasible"
    /\ outcome = "RuntimeError"

\* C3 (input validation), as claimed: invalid inputs (different lengths, a
\* negative requirement or a negative wage) end in an invalid-input error
\* raised without the LP being solved, and never in a plan.
C3_InvalidInputRejected ==
    (Done /\ ~ValidInput) =>
        /\ outcome = "ValueError"
        /\ result.status = "none"
        /\ staff_plan = <<>>

\* C4 (cost consistency): on every successful solve on valid inputs the
\* cost is sum(plan[t] * hourly_wage[t]); and it equals
\* sum(required_staff[t] * hourly_wage[t]), a value fixed by the two
\* sequences alone, hence the same for every overstaff_penalty.
C4_CostConsistency ==
    (Succeeded /\ ValidInput) =>
        /\ total_cost = <<Dot(staff_plan, hourly_wage)>>
        /\ total_cost = <<Dot(required_staff, hourly_wage)>>

\* A solve with a positive penalty returned a positive cost.
C4_Witness ==
    /\ Succeeded /\ ValidInput
    /\ overstaff_penalty > 0
    /\ total_cost # None
    /\ total_cost[1] > 0

C6_Capacity ==
    (Succeeded /\ max_staff # None) =>
        \A t \in 1..Len(staff_plan) : staff_plan[t] <= max_staff[1]

\* A fractional LP value just under the cap was rounded up to the cap.
C6_Witness ==
    /\ Succeeded /\ max_staff # None
    /\ \E t \in 1..Len(staff_plan) :
        /\ result.x[t] % 2 = 1
        /\ staff_plan[t] = max_staff[1]
        /\ required_staff[t] < max_staff[1]

\* C7 (failure only on an inconsistent cap): on valid inputs the call fails
\* only when max_staff is provided and below some required_staff[t]; with no
\* max_staff, or max_staff >= max(required_staff), it returns a plan and a
\* cost.
C7_FailureOnlyOnInconsistentCap ==
    (Done /\ ValidInput) =>
        /\ outcome # "ok" =>
            /\ max_staff # None
            /\ \E t \in Hours : max_staff[1] < required_staff[t]
        /\ (max_staff = None \/ max_staff[1] >= MaxOf(required_staff)) =>
            /\ outcome = "ok"
            /\ Len(staff_plan) = Len(required_staff)
            /\ total_cost # None

\* A solve whose cap equals the largest (positive) requirement succeeded.
C7_Witness ==
    /\ Succeeded /\ ValidInput
    /\ max_staff # None
    /\ max_staff[1] = MaxOf(required_staff)
    /\ max_staff[1] > 0

\* C8 (shape and integrality): every successful solve returns a plan of
\* n = len(required_staff) non-negative integers, element t being the
\* round-up of the solver's value for hour t (same hour order).
C8_OutputShape ==
    Succeeded =>
        /\ Len(staff_plan) = Len(required_staff)
        /\ \A t \in Hours :
            /\ staff_plan[t] \in Nat
            /\ 2 * staff_plan[t] >= result.x[t]
            /\ 2 * staff_plan[t] < result.x[t] + 2

\* A two-hour plan with different entries was returned.
C8_Witness ==
    /\ Succeeded
    /\ Len(staff_plan) = 2
    /\ staff_plan[1] < staff_plan[2]

C10_CallerMapping ==
    caller = "app" =>
        /\ ui_max_staff = 0 => max_staff = None
        /\ ui_max_staff > 0 => max_staff = <<ui_max_staff>>
        /\ max_staff # <<0>>
        /\ ui_max_staff = 0 => result.status # "infeasible"

\* An app run with widget value 0 and a positive requirement returned a plan.
C10_Witness ==
    /\ caller = "app"
    /\ ui_max_staff = 0
    /\ Succeeded
    /\ \E t \in Hours : required_staff[t] > 0

====
